---- MODULE Spec2Model ----
(***************************************************************************)
(* Model of src/main.py: the daily table scraper.                          *)
(*                                                                         *)
(*   create_new_google_sheet_tab -> scrape_table -> write_to_google_sheet  *)
(*                                                                         *)
(* An HTML page is modelled by the tree BeautifulSoup builds from it:      *)
(*   document = sequence of top-level <table> elements,                    *)
(*   table    = sequence of <tr> elements,                                 *)
(*   tr       = sequence of <th>/<td> elements,                            *)
(*   cell     = [tag, children], a child being a text node or a nested     *)
(*              <table>.                                                   *)
(* A Python str is a sequence of one-character strings.                    *)
(* The log holds the INFO and ERROR records; DEBUG records are left out.   *)
(***************************************************************************)
EXTENDS Integers, Sequences, FiniteSets, TLC

VARIABLES pc, scriptUrl, tabExists, tabContent, tab0, calls, fetched,
          tableIndex, result, data, creds, raised, failure, escaped, log

vars == <<pc, scriptUrl, tabExists, tabContent, tab0, calls, fetched,
          tableIndex, result, data, creds, raised, failure, escaped, log>>

\* ------------------------------------------------------------------ bounds
MaxCells == 2
MaxRows == 2
MaxTables == 2
MaxIndex == 2

\* ------------------------------------------------------- generic helpers
RECURSIVE Flatten(_)
Flatten(ss) == IF ss = <<>> THEN <<>> ELSE Head(ss) \o Flatten(Tail(ss))

RECURSIVE SumSeq(_)
SumSeq(ns) == IF ns = <<>> THEN 0 ELSE Head(ns) + SumSeq(Tail(ns))

SeqsOfLen(S, k) == [1..k -> S]
SeqsUpTo(S, n) == UNION {SeqsOfLen(S, k) : k \in 0..n}

\* ------------------------------------------------------------ python str
Whitespace == {" "}

RECURSIVE lstrip(_)
lstrip(s) == IF s # <<>> /\ Head(s) \in Whitespace THEN lstrip(Tail(s)) ELSE s

RECURSIVE rstrip(_)
rstrip(s) ==
  IF s # <<>> /\ s[Len(s)] \in Whitespace
  THEN rstrip(SubSeq(s, 1, Len(s) - 1)) ELSE s

strip(s) == rstrip(lstrip(s))

\* ------------------------------------------------------ parsed documents
Text(s) == [type |-> "text", s |-> s, rows |-> <<>>]
NestedTable(rows) == [type |-> "table", s |-> <<>>, rows |-> rows]
Cell(tag, children) == [tag |-> tag, children |-> children]

\* <table><tr><td> c </td></tr><tr> </tr></table>
InnerTable == << <<Cell("td", <<Text(<<" ", "c", " ">>)>>)>>, <<>> >>

Cells ==
  { Cell("th", <<Text(<<" ", "a", " ">>), Text(<<"b">>)>>), \* <th> a <b>b</b></th>
    Cell("td", <<Text(<<" ">>)>>),                          \* <td> </td>
    Cell("td", <<Text(<<"x">>), NestedTable(InnerTable)>>)  \* <td>x<table>..
  }

TrElements == SeqsUpTo(Cells, MaxCells)

\* documents of exactly k top-level tables holding at most r <tr> in all
RECURSIVE DocsWith(_, _)
DocsWith(k, r) ==
  IF k = 0 THEN {<<>>}
  ELSE UNION { { <<t>> \o d : t \in SeqsOfLen(TrElements, j),
                              d \in DocsWith(k - 1, r - j) } : j \in 0..r }

Documents == UNION {DocsWith(k, MaxRows) : k \in 0..MaxTables}
SmallDocuments == UNION {DocsWith(k, 1) : k \in 0..1}

\* the value of a rawHtml / html field: None, "" or a page
NoneHtml == [none |-> TRUE, empty |-> TRUE, tables |-> <<>>]
EmptyHtml == [none |-> FALSE, empty |-> TRUE, tables |-> <<>>]
Page(d) == [none |-> FALSE, empty |-> FALSE, tables |-> d]

Responses ==
  {[hasData |-> FALSE, rawHtml |-> Page(d), html |-> NoneHtml] : d \in Documents}
  \cup
  {[hasData |-> hd, rawHtml |-> r, html |-> h] :
     hd \in BOOLEAN, r \in {NoneHtml, EmptyHtml},
     h \in {NoneHtml, EmptyHtml} \cup {Page(d) : d \in SmallDocuments}}
  \cup
  {[hasData |-> TRUE, rawHtml |-> Page(d), html |-> h] :
     d \in SmallDocuments, h \in {NoneHtml, Page(<<>>)}}

NoResponse == [hasData |-> FALSE, rawHtml |-> NoneHtml, html |-> NoneHtml]

\* what app.scrape_url() does: raises, or returns a response
FetchOutcomes ==
  {[raises |-> TRUE, resp |-> NoResponse]}
  \cup {[raises |-> FALSE, resp |-> r] : r \in Responses}

\* ---------------------------------------------------------- BeautifulSoup
NestedTablesOf(cell) ==
  Flatten([i \in 1..Len(cell.children) |->
             IF cell.children[i].type = "table"
             THEN <<cell.children[i].rows>> ELSE <<>>])

\* tag._all_strings(): the text nodes below a cell, in document order
RECURSIVE all_strings(_)
all_strings(cell) ==
  Flatten([i \in 1..Len(cell.children) |->
    LET ch == cell.children[i] IN
    IF ch.type = "text" THEN <<ch.s>>
    ELSE Flatten([r \in 1..Len(ch.rows) |->
           Flatten([c \in 1..Len(ch.rows[r]) |-> all_strings(ch.rows[r][c])])])])

\* td.get_text(strip=True): every text node stripped, empty ones skipped,
\* joined with the empty separator
get_text(cell) ==
  LET strings == all_strings(cell) IN
  Flatten([i \in 1..Len(strings) |-> strip(strings[i])])

CellTags_m == {"td"}

CellTags == {"th", "td"}

\* tr.find_all(["th", "td"]): descendant search, document order
RECURSIVE find_all_cells(_)
find_all_cells(tr) ==
  Flatten([c \in 1..Len(tr) |->
    (IF tr[c].tag \in CellTags THEN <<tr[c]>> ELSE <<>>)
    \o Flatten([n \in 1..Len(NestedTablesOf(tr[c])) |->
         LET nt == NestedTablesOf(tr[c])[n] IN
         Flatten([r \in 1..Len(nt) |-> find_all_cells(nt[r])])])])

\* table.find_all("tr"): descendant search, document order
RECURSIVE find_all_tr(_)
find_all_tr(table) ==
  Flatten([r \in 1..Len(table) |->
    <<table[r]>>
    \o Flatten([c \in 1..Len(table[r]) |->
         Flatten([n \in 1..Len(NestedTablesOf(table[r][c])) |->
           find_all_tr(NestedTablesOf(table[r][c])[n])])])])

RECURSIVE TablesWithin(_)
TablesWithin(table) ==
  Flatten([r \in 1..Len(table) |->
    Flatten([c \in 1..Len(table[r]) |->
      Flatten([n \in 1..Len(NestedTablesOf(table[r][c])) |->
        LET nt == NestedTablesOf(table[r][c])[n] IN
        <<nt>> \o TablesWithin(nt)])])])

\* soup.find_all("table"): descendant search, document order
find_all_table(d) ==
  Flatten([t \in 1..Len(d) |-> <<d[t]>> \o TablesWithin(d[t])])

\* ------------------------------------------------------------------- log
LogRec(fn, level, msg, args) ==
  [fn |-> fn, level |-> level, msg |-> msg, args |-> args]

\* ----------------------------------------------------------- scrape_table
Falsy_m(h) == h.none

\* `not html`
Falsy(h) == h.none \/ h.empty

\* `a or b`
Or(a, b) == IF Falsy(a) THEN b ELSE a

\* `if cells:`
RowKept_m(cells) == \E i \in 1..Len(cells) : cells[i] # <<>>

RowKept(cells) == cells # <<>>

\* [td.get_text(strip=True) for td in tr.find_all(["th", "td"])]
RowCells(tr) ==
  LET tds == find_all_cells(tr) IN [j \in 1..Len(tds) |-> get_text(tds[j])]

\* rows.append(cells)
RowsAppend(rows, cells) == Append(rows, cells)

\* the loop of lines 94-98 over the <tr> elements trs, from position i
RECURSIVE RowsLoop(_, _, _)
RowsLoop(trs, i, rows) ==
  IF i > Len(trs) THEN rows
  ELSE LET cells == RowCells(trs[i]) IN
       RowsLoop(trs, i + 1,
                IF RowKept(cells) THEN RowsAppend(rows, cells) ELSE rows)

Outcome(exc, rows, found, index, parsed, lg) ==
  [exc |-> exc, rows |-> rows, found |-> found, index |-> index,
   parsed |-> parsed, log |-> lg]

IndexErrorOutcome_m(n, idx) ==
  Outcome("IndexError", <<>>, idx, n, TRUE,
          <<LogRec("scrape_table", "ERROR",
                   "Only %d tables found; index %d out of range", <<idx, n>>)>>)

\* lines 87-90
IndexErrorOutcome(n, idx) ==
  Outcome("IndexError", <<>>, n, idx, TRUE,
          <<LogRec("scrape_table", "ERROR",
                   "Only %d tables found; index %d out of range", <<n, idx>>)>>)

NoHtmlOutcome_m ==
  Outcome("RuntimeError", <<>>, 0, 0, FALSE, <<>>)

\* lines 76-78
NoHtmlOutcome ==
  Outcome("RuntimeError", <<>>, 0, 0, FALSE,
          <<LogRec("scrape_table", "ERROR", "No HTML returned", <<>>)>>)

\* lines 64-66
FetchErrorOutcome ==
  Outcome("FirecrawlError", <<>>, 0, 0, FALSE,
          <<LogRec("scrape_table", "ERROR", "Failed to call scrape_url", <<>>)>>)

NoOutcome == Outcome("none", <<>>, 0, 0, FALSE, <<>>)

\* resp.data.get("rawHtml") or resp.data.get("html")   (line 70)
\* getattr(resp, "rawHtml", None) or getattr(resp, "html", None)  (line 73)
HtmlOf(resp) == Or(resp.rawHtml, resp.html)

scrape_table(f, table_index) ==
  IF f.raises THEN FetchErrorOutcome
  ELSE IF Falsy(HtmlOf(f.resp)) THEN NoHtmlOutcome
  ELSE LET tables == find_all_table(HtmlOf(f.resp).tables) IN
       IF table_index >= Len(tables)
       THEN IndexErrorOutcome(Len(tables), table_index)
       ELSE Outcome("none",
                    RowsLoop(find_all_tr(tables[table_index + 1]), 1, <<>>),
                    0, 0, TRUE, <<>>)

\* ------------------------------------------- create_new_google_sheet_tab
HttpStatuses == {200, 201, 500}

\* what requests.post() does: raises, or returns a response with a status
PostOutcomes ==
  {[raises |-> TRUE, status |-> 0]}
  \cup {[raises |-> FALSE, status |-> s] : s \in HttpStatuses}

CallResult(exc, lg) == [exc |-> exc, log |-> lg]

\* `response.status_code != 200`
StatusFailed(status) == status # 200

\* url "unset" is os.getenv("GOOGLE_SCRIPT_URL") = None: requests.post(None)
\* raises before any request is sent
create_new_google_sheet_tab(url, p) ==
  IF url = "unset" \/ p.raises THEN CallResult("RequestException", <<>>)
  ELSE IF StatusFailed(p.status)
  THEN CallResult("Exception",
         <<LogRec("create_new_google_sheet_tab", "ERROR",
                  "Failed to create new sheet tab", <<p.status>>)>>)
  ELSE CallResult("none",
         <<LogRec("create_new_google_sheet_tab", "INFO",
                  "Successfully created a new tab", <<>>)>>)

\* ------------------------------------------------- write_to_google_sheet
\* the call of write_to_google_sheet that raises, "none" when none does
WriteFailures == {"none", "auth", "open", "clear", "append"}

WriteResult(exc, content, lg) == [exc |-> exc, content |-> content, log |-> lg]

clear_m(content) == content

\* worksheet.clear()
clear(content) == <<>>

\* worksheet.append_rows(data)
append_rows(content, d) == content \o d

\* creds "dict" is a dict where from_json_keyfile_name opens a file name:
\* open() raises TypeError
write_to_google_sheet(d, cr, exists, content, failAt) ==
  IF cr = "dict" THEN WriteResult("TypeError", content, <<>>)
  ELSE IF failAt = "auth" THEN WriteResult("AuthError", content, <<>>)
  ELSE IF failAt = "open" THEN WriteResult("SpreadsheetNotFound", content, <<>>)
  ELSE IF ~exists THEN WriteResult("WorksheetNotFound", content, <<>>)
  ELSE IF failAt = "clear" THEN WriteResult("APIError", content, <<>>)
  ELSE IF failAt = "append" THEN WriteResult("APIError", clear(content), <<>>)
  ELSE WriteResult("none", append_rows(clear(content), d),
         <<LogRec("write_to_google_sheet", "INFO",
                  "Inserted data into worksheet", <<>>)>>)

\* -------------------------------------------------------------- __main__
\* the classes `except Exception` catches: every exception the stages raise
ExceptionSubclasses ==
  {"Exception", "RequestException", "FirecrawlError", "RuntimeError",
   "IndexError", "TypeError", "AuthError", "SpreadsheetNotFound",
   "WorksheetNotFound", "APIError"}

Caught_m(exc) == exc \in {"RuntimeError", "IndexError"}

\* `except Exception as e:`
Caught(exc) == exc \in ExceptionSubclasses

\* a raise inside the try block skips the statements after it
NextStage_m(exc, next) == next

NextStage(exc, next) == IF exc = "none" THEN next ELSE "done"

\* logger.exception(...) of the handler
Handler(exc) ==
  IF exc # "none" /\ Caught(exc)
  THEN <<LogRec("__main__", "ERROR",
                "Error scraping table or writing to Google Sheet", <<>>)>>
  ELSE <<>>

StartLog ==
  << LogRec("__main__", "INFO", "Environment variables loaded successfully.", <<>>),
     LogRec("__main__", "INFO", "Today's date", <<>>) >>

NoFetch == [raises |-> FALSE, resp |-> NoResponse]

Rows(d) == scrape_table([raises |-> FALSE, resp |->
             [hasData |-> FALSE, rawHtml |-> Page(d), html |-> NoneHtml]], 0).rows

\* what a tab can hold from an earlier run
PriorContents == {Rows(d) : d \in SmallDocuments}
MainPriorContents == {<<>>, << <<<<"o", "l", "d">>>> >>}

Init ==
  /\ pc = "provision"
  /\ scriptUrl \in {"unset", "set"}
  /\ tabExists \in BOOLEAN
  /\ tabContent \in MainPriorContents
  /\ tab0 = tabContent
  /\ calls = <<>>
  /\ fetched = NoFetch
  /\ tableIndex = 0
  /\ result = NoOutcome
  /\ data = <<>>
  /\ creds = "dict"
  /\ raised = "none"
  /\ failure = "none"
  /\ escaped = FALSE
  /\ log = StartLog

\* lines 168-172, and the handler when the call raises
Provision ==
  /\ pc = "provision"
  /\ \E p \in PostOutcomes :
       LET r == create_new_google_sheet_tab(scriptUrl, p) IN
       /\ calls' = Append(calls, "provision")
       /\ raised' = r.exc
       /\ failure' = IF r.exc = "none" THEN failure ELSE "provision"
       /\ escaped' = (r.exc # "none" /\ ~Caught(r.exc))
       /\ log' = log \o r.log \o Handler(r.exc)
       /\ tabExists' = (tabExists \/ r.exc = "none")
       /\ pc' = NextStage(r.exc, "fetch_extract")
  /\ UNCHANGED <<scriptUrl, tabContent, tab0, fetched, tableIndex, result,
                 data, creds>>

\* line 173, and the handler when the call raises
FetchExtract ==
  /\ pc = "fetch_extract"
  /\ \E f \in FetchOutcomes :
       /\ fetched' = f
       /\ result' = scrape_table(f, tableIndex)
       /\ calls' = Append(calls, "fetch_extract")
       /\ raised' = IF result'.exc = "none" THEN raised ELSE result'.exc
       /\ failure' = IF result'.exc = "none" THEN failure ELSE "fetch_extract"
       /\ escaped' = (escaped \/ (result'.exc # "none" /\ ~Caught(result'.exc)))
       /\ log' = log \o result'.log \o Handler(result'.exc)
       /\ data' = IF result'.exc = "none" THEN result'.rows ELSE data
       /\ pc' = NextStage(result'.exc, "write")
  /\ UNCHANGED <<scriptUrl, tabExists, tabContent, tab0, tableIndex, creds>>

\* lines 174-175, and the handler when the call raises
Write ==
  /\ pc = "write"
  /\ \E failAt \in WriteFailures :
       LET r == write_to_google_sheet(data, creds, tabExists, tabContent, failAt) IN
       /\ calls' = Append(calls, "write")
       /\ tabContent' = r.content
       /\ raised' = IF r.exc = "none" THEN raised ELSE r.exc
       /\ failure' = IF r.exc = "none" THEN failure ELSE "write"
       /\ escaped' = (escaped \/ (r.exc # "none" /\ ~Caught(r.exc)))
       /\ log' = log \o r.log
                 \o (IF r.exc = "none"
                     THEN <<LogRec("__main__", "INFO",
                                   "Scraped %d rows and updated Google Sheet successfully.",
                                   <<Len(data)>>)>>
                     ELSE <<>>)
                 \o Handler(r.exc)
       /\ pc' = NextStage(r.exc, "done")
  /\ UNCHANGED <<scriptUrl, tabExists, tab0, fetched, tableIndex, result,
                 data, creds>>

Next == Provision \/ FetchExtract \/ Write

Spec == Init /\ [][Next]_vars

\* ---------------------------------- scrape_table on every bounded input
InitScrape ==
  /\ pc = "scrape_call"
  /\ fetched \in FetchOutcomes
  /\ tableIndex \in 0..MaxIndex
  /\ scriptUrl = "set"
  /\ tabExists = FALSE
  /\ tabContent = <<>>
  /\ tab0 = <<>>
  /\ calls = <<>>
  /\ result = NoOutcome
  /\ data = <<>>
  /\ creds = "path"
  /\ raised = "none"
  /\ failure = "none"
  /\ escaped = FALSE
  /\ log = <<>>

ScrapeCall ==
  /\ pc = "scrape_call"
  /\ result' = scrape_table(fetched, tableIndex)
  /\ raised' = result'.exc
  /\ log' = log \o result'.log
  /\ pc' = "scrape_returned"
  /\ UNCHANGED <<scriptUrl, tabExists, tabContent, tab0, calls, fetched,
                 tableIndex, data, creds, failure, escaped>>

NextScrape == ScrapeCall

SpecScrape == InitScrape /\ [][NextScrape]_vars

\* ------------------------- write_to_google_sheet on every bounded input
InitWrite ==
  /\ pc = "write_call"
  /\ data \in {Rows(d) : d \in DocsWith(1, MaxRows)}
  /\ creds \in {"path", "dict"}
  /\ tabExists \in BOOLEAN
  /\ tabContent \in PriorContents
  /\ tab0 = tabContent
  /\ scriptUrl = "set"
  /\ calls = <<>>
  /\ fetched = NoFetch
  /\ tableIndex = 0
  /\ result = NoOutcome
  /\ raised = "none"
  /\ failure = "none"
  /\ escaped = FALSE
  /\ log = <<>>

WriteCall ==
  /\ pc = "write_call"
  /\ \E failAt \in WriteFailures :
       LET r == write_to_google_sheet(data, creds, tabExists, tabContent, failAt) IN
       /\ tabContent' = r.content
       /\ raised' = r.exc
       /\ log' = log \o r.log
  /\ pc' = "write_returned"
  /\ UNCHANGED <<scriptUrl, tabExists, tab0, calls, fetched, tableIndex,
                 result, data, creds, failure, escaped>>

NextWrite == WriteCall

SpecWrite == InitWrite /\ [][NextWrite]_vars

\* =================================================================
\* Properties
\* =================================================================
Stages == <<"provision", "fetch_extract", "write">>

IsPrefix(s, t) == Len(s) <= Len(t) /\ \A i \in 1..Len(s) : s[i] = t[i]

TopLevelErrors ==
  {i \in 1..Len(log) : log[i].fn = "__main__" /\ log[i].level = "ERROR"}

ErrorEntries == {i \in 1..Len(log) : log[i].level = "ERROR"}

SuccessLogged ==
  \E i \in 1..Len(log) : log[i].fn = "__main__" /\ log[i].level = "INFO"
                         /\ log[i].args # <<>>

\* the page a response carries, if any: rawHtml when it is a non-empty
\* string, else html
IsPage(h) == ~h.none /\ ~h.empty
HasPage == ~fetched.raises /\ (IsPage(fetched.resp.rawHtml) \/ IsPage(fetched.resp.html))
ThePage ==
  IF IsPage(fetched.resp.rawHtml) THEN fetched.resp.rawHtml.tables
  ELSE fetched.resp.html.tables

\* number of <table> elements of a document, nested ones included
RECURSIVE CountTablesIn(_)
CountTablesIn(table) ==
  SumSeq([r \in 1..Len(table) |->
    SumSeq([c \in 1..Len(table[r]) |->
      SumSeq([n \in 1..Len(table[r][c].children) |->
        IF table[r][c].children[n].type = "table"
        THEN 1 + CountTablesIn(table[r][c].children[n].rows) ELSE 0])])])

CountTables(d) == SumSeq([t \in 1..Len(d) |-> 1 + CountTablesIn(d[t])])

\* number of <tr> elements within a table, at any depth, that hold a cell
RECURSIVE CountRowsWithCells(_)
CountRowsWithCells(table) ==
  SumSeq([r \in 1..Len(table) |->
    (IF Len(table[r]) > 0 THEN 1 ELSE 0)
    + SumSeq([c \in 1..Len(table[r]) |->
        SumSeq([n \in 1..Len(table[r][c].children) |->
          IF table[r][c].children[n].type = "table"
          THEN CountRowsWithCells(table[r][c].children[n].rows) ELSE 0])])])

Returned == pc = "scrape_returned"
ValidCall == Returned /\ HasPage /\ tableIndex < CountTables(ThePage)
Selected == find_all_table(ThePage)[tableIndex + 1]

\* rows and cells keep document order and the cell texts are those text(_)
\* gives: the k-th <tr> that holds a cell is the source of the k-th row
InDocumentOrder(trs, rows, text(_, _)) ==
  LET kept == {i \in 1..Len(trs) : Len(find_all_cells(trs[i])) > 0} IN
  /\ Len(rows) = Cardinality(kept)
  /\ \A i \in kept :
       LET k == Cardinality({j \in kept : j <= i})
           tds == find_all_cells(trs[i])
       IN /\ Len(rows[k]) = Len(tds)
          /\ \A j \in 1..Len(tds) : text(tds[j], rows[k][j])

Blank(s) == \A i \in 1..Len(s) : s[i] \in Whitespace
AllBlank(tr) ==
  \A j \in 1..Len(find_all_cells(tr)) :
    \A n \in 1..Len(all_strings(find_all_cells(tr)[j])) :
      Blank(all_strings(find_all_cells(tr)[j])[n])

\* C1: the stages are attempted in the order provision, fetch_extract,
\* write, each at most once; a stage is attempted only when every earlier
\* one completed without failure, and after a failure in provision or in
\* fetch_extract the tab is neither cleared nor written.
C1_StageOrder ==
  /\ IsPrefix(calls, Stages)
  /\ (failure = "provision" => calls = <<"provision">> /\ pc = "done")
  /\ (failure = "fetch_extract" =>
        calls = <<"provision", "fetch_extract">> /\ pc = "done")
  /\ (failure \in {"provision", "fetch_extract"} => tabContent = tab0)
  /\ (pc = "fetch_extract" => calls = <<"provision">> /\ failure = "none")
  /\ (pc = "write" => calls = <<"provision", "fetch_extract">> /\ failure = "none")

C1_Witness ==
  /\ pc = "done" /\ failure = "fetch_extract"
  /\ tabExists /\ tab0 # <<>> /\ tabContent = tab0

\* C2: whatever stage fails and whatever the exception, the handler at the
\* top level catches it and logs it exactly once, as the last record, and
\* the exception does not leave the entry point; a run without failure has
\* no such record, and the success message is logged only after all three
\* stages succeeded.
C2_TopLevelCatch ==
  /\ ~escaped
  /\ (pc = "done" /\ failure # "none" =>
        Cardinality(TopLevelErrors) = 1 /\ Len(log) \in TopLevelErrors)
  /\ (failure = "none" => TopLevelErrors = {})
  /\ (SuccessLogged => failure = "none" /\ calls = Stages /\ pc = "done")
  /\ (failure # "none" => pc = "done" /\ raised # "none")

C2_Witness ==
  /\ pc = "done" /\ failure = "write" /\ raised = "TypeError"
  /\ Cardinality(TopLevelErrors) = 1 /\ ~escaped

\* C3: for a page and a table_index >= the number of <table> elements of
\* the page, scrape_table raises IndexError, the message carries the number
\* of tables found and the index asked for, and no rows are returned.
C3_IndexOutOfRange ==
  (Returned /\ HasPage /\ tableIndex >= CountTables(ThePage)) =>
     /\ result.exc = "IndexError"
     /\ result.found = CountTables(ThePage)
     /\ result.index = tableIndex
     /\ result.rows = <<>>
     /\ Len(log) = 1
     /\ log[1].args = <<CountTables(ThePage), tableIndex>>

C3_Witness ==
  /\ Returned /\ HasPage /\ CountTables(ThePage) = 2 /\ tableIndex = 2
  /\ result.exc = "IndexError" /\ result.found = 2 /\ result.index = 2

C5_NoHtml ==
  (Returned /\ ~fetched.raises /\ ~HasPage) =>
     /\ result.exc = "RuntimeError"
     /\ ~result.parsed
     /\ result.rows = <<>>
     /\ Len(log) = 1 /\ log[1].msg = "No HTML returned"

C5_Witness ==
  /\ Returned /\ ~fetched.raises
  /\ fetched.resp.rawHtml = EmptyHtml /\ fetched.resp.html = NoneHtml
  /\ result.exc = "RuntimeError" /\ ~result.parsed

\* C6: after a write that succeeds the tab holds exactly the rows of the
\* Table, in the same row and cell order, whatever it held before.
C6_WriteReplaces ==
  (pc = "write_returned" /\ raised = "none") => tabContent = data

C6_Witness ==
  /\ pc = "write_returned" /\ raised = "none"
  /\ tab0 # <<>> /\ Len(data) = 2 /\ data[1] # data[2] /\ tab0[1] # data[1]
  /\ tabContent = data

\* C7: the returned rows are in the document order of their <tr> elements,
\* the cells of a row in the document order of the row's <th>/<td>
\* elements, and each cell string is the text of the cell with leading and
\* trailing whitespace removed.
C7_DocumentOrderTrimmed ==
  ValidCall =>
     LET Trimmed(td, str) == str = strip(Flatten(all_strings(td))) IN
     InDocumentOrder(find_all_tr(Selected), result.rows, Trimmed)

\* C8 as stated: a row whose cells are all empty after trimming does not
\* appear in the returned Table.
C8_BlankRowsOmitted ==
  ValidCall =>
     \A k \in 1..Len(result.rows) :
        \E j \in 1..Len(result.rows[k]) : result.rows[k][j] # <<>>

\* C8 amended: a <tr> is omitted exactly when it holds no <th>/<td>; a <tr>
\* whose cells all have blank text appears, at its place, as a row of one
\* empty string per cell.
C8_BlankRowsKept ==
  ValidCall =>
     LET BlankIsEmpty(td, str) ==
           (\A n \in 1..Len(all_strings(td)) : Blank(all_strings(td)[n]))
              => str = <<>>
     IN InDocumentOrder(find_all_tr(Selected), result.rows, BlankIsEmpty)

C8_Witness ==
  /\ ValidCall
  /\ Len(Selected) = 2 /\ Len(Selected[1]) = 2 /\ AllBlank(Selected[1])
  /\ Len(result.rows) = 2
  /\ result.rows[1] = << <<>>, <<>> >>

\* C9: the returned rows come only from the selected table's own <tr>
\* elements: there are never more rows than such elements.
C9_DirectRowsOnly ==
  ValidCall => Len(result.rows) <= Len(Selected)

FailedInside ==
  raised \in {"Exception", "FirecrawlError", "RuntimeError", "IndexError"}

FailingFn ==
  CASE failure = "provision" -> "create_new_google_sheet_tab"
    [] failure = "fetch_extract" -> "scrape_table"
    [] OTHER -> "write_to_google_sheet"

\* C10 as stated: on every failed run the log holds an error record of the
\* failing operation, followed by the record of the top level.
C10_LoggedAtOccurrence ==
  (pc = "done" /\ failure # "none") =>
     /\ Len(log) >= 2
     /\ log[Len(log)].fn = "__main__" /\ log[Len(log)].level = "ERROR"
     /\ log[Len(log) - 1].fn = FailingFn /\ log[Len(log) - 1].level = "ERROR"

\* C10 amended: a non-200 provisioning status, an exception of scrape_url,
\* a missing HTML payload and a table index out of range are logged by the
\* failing operation and then by the top level; an exception raised by
\* requests.post itself or anywhere in write_to_google_sheet is logged by
\* the top level only.
C10_LoggedWhereDetected ==
  (pc = "done" /\ failure # "none") =>
     /\ log[Len(log)].fn = "__main__" /\ log[Len(log)].level = "ERROR"
     /\ IF FailedInside
        THEN /\ Cardinality(ErrorEntries) = 2
             /\ log[Len(log) - 1].fn = FailingFn
             /\ log[Len(log) - 1].level = "ERROR"
        ELSE /\ Cardinality(ErrorEntries) = 1
             /\ (failure = "write" \/ raised = "RequestException")

C10_Witness ==
  /\ pc = "done" /\ failure = "fetch_extract" /\ raised = "RuntimeError"
  /\ Cardinality(ErrorEntries) = 2
  /\ log[Len(log) - 1].fn = "scrape_table"

====
